---------------------------- MODULE Spec2Model ----------------------------
(***************************************************************************)
(* A model of the CRM GraphQL backend: the mutations and resolvers of      *)
(* crm/schema.py over the entity store, and the scheduled tasks of         *)
(* crm/cron.py and crm/cron_jobs/send_order_reminders.py.                  *)
(*                                                                         *)
(* The entity store is three sequences (customers, products, orders); a    *)
(* record's primary key is its position.  No mutation deletes a record,    *)
(* so keys are never reused.  Money is counted in whole minor units.       *)
(***************************************************************************)
EXTENDS Integers, Sequences, FiniteSets, TLC

(***************************************************************************)
(* Bounds of the model.                                                    *)
(***************************************************************************)
MaxBulk      == 3      \* inputs of one bulkCreateCustomers call
MaxProducts  == 2      \* products the store may hold
MaxOrders    == 1      \* orders the store may hold
MaxIds       == 2      \* product ids in one createOrder call
MaxRows      == 3      \* rows a filter may match
MaxItems     == 2      \* items in one API answer to a scheduled task
MaxRuns      == 2      \* runs of scheduled tasks

(***************************************************************************)
(* Optional values: Python's None is the empty sequence, a value v is <<v>> *)
(***************************************************************************)
None    == << >>
Some(v) == << v >>

(***************************************************************************)
(* Input domains.                                                          *)
(***************************************************************************)
Emails == {"a@x.io", "b@x.io", "A@x.io"}
Names  == {"", "Ann"}

\* A phone argument is absent (None) or a string, modelled as its characters.
NoPhone      == [present |-> FALSE, chars |-> << >>]
Phone(chars) == [present |-> TRUE, chars |-> chars]
Digits       == {"0", "1", "2", "3", "4", "5", "6", "7", "8", "9"}

PlusPhone    == Phone(<<"+", "1", "2", "3">>)
DashPhone    == Phone(<<"1","2","3","-","4","5","6","-","7","8","9","0">>)
EmptyPhone   == Phone(<< >>)
BadPhone     == Phone(<<"1", "2", "x">>)
ShortDash    == Phone(<<"1","2","-","4","5","6","-","7","8","9","0">>)
Phones       == {NoPhone, EmptyPhone, PlusPhone, DashPhone, BadPhone, ShortDash}

CustomerInputs == [name : Names, email : Emails, phone : Phones]

\* The items of a bulk call: fewer of each, so that whole sequences can be drawn.
BulkItems  == [name : {"Ann"}, email : {"a@x.io", "b@x.io"},
               phone : {NoPhone, PlusPhone, BadPhone}]
SeqUpTo(S, n) == UNION {[1..k -> S] : k \in 0..n}
BulkInputs == SeqUpTo(BulkItems, MaxBulk)

VARIABLES
  customers,   \* Customer table: sequence of [name, email, phone]
  products,    \* Product table: sequence of [name, price, stock]
  orders,      \* Order table as committed: sequence of [customer, products, total]
  tx,          \* the open transaction of a createOrder call, with its pending row
  obs,         \* what a concurrent reader last saw of the Order table
  rs,          \* the restock invocations: where each is in UpdateLowStockProducts.mutate
  res,         \* the response of the API call that has just finished, not yet delivered
  page,        \* the last call of a filtered listing resolver
  cron         \* the scheduled tasks: their log sinks and the last run

vars == <<customers, products, orders, tx, obs, rs, res, page, cron>>

\* No API call is between its result and the delivery of its response.
Idle == [op |-> "none"]

(***************************************************************************)
(* Errors and results.                                                     *)
(***************************************************************************)
ErrorType(field, message) == [field |-> field, message |-> message]

\* Python truthiness of the phone argument: None and "" are both falsy.
Truthy(phone) == phone.present /\ phone.chars # << >>

\* Customer.phone validator: '+' followed by digits, or ###-###-####.
IsPlusDigits(s) ==
  /\ Len(s) >= 2
  /\ s[1] = "+"
  /\ \A i \in 2..Len(s) : s[i] \in Digits

IsDashed(s) ==
  /\ Len(s) = 12
  /\ \A i \in 1..12 : IF i \in {4, 8} THEN s[i] = "-" ELSE s[i] \in Digits

PhoneMatches(phone) == IsPlusDigits(phone.chars) \/ IsDashed(phone.chars)

\* The same test on a column that never holds an email.
EmailExistsWrongColumn(store, e) == \E i \in 1..Len(store) : store[i].name = e

\* Customer.objects.filter(email=e).exists(): an exact, case-sensitive match.
EmailExists(store, e) == \E i \in 1..Len(store) : store[i].email = e

\* Model.full_clean() of a Customer: the ValidationError's message_dict as a
\* sequence of <<field, message>> in field order; empty when the record is clean.
CustomerFullClean(store, c) ==
  (IF c.name = "" THEN <<ErrorType("name", "This field cannot be blank.")>> ELSE << >>)
  \o (IF EmailExists(store, c.email)
        THEN <<ErrorType("email", "Customer with this Email already exists.")>>
        ELSE << >>)
  \o (IF c.phone.present /\ ~PhoneMatches(c.phone)
        THEN <<ErrorType("phone", "Enter a valid phone number.")>>
        ELSE << >>)

\* 'unique' in message.lower(): none of the validator messages above says so.
MentionsUnique(message) == message = "Unique constraint failed"

\* The user-friendly message both customer mutations give a validation error.
FriendlyMessage(e) ==
  IF e.field = "email" /\ MentionsUnique(e.message)
    THEN "Email already exists"
    ELSE IF e.field = "phone"
           THEN "Invalid phone format. Use +1234567890 or 123-456-7890"
           ELSE e.message

\* The except ValidationError branch of CreateCustomerMutation.mutate.
FriendlyError(e) == ErrorType(e.field, FriendlyMessage(e))

\* The record CreateCustomerMutation.mutate builds before validating it.
NewCustomer(input) ==
  [name  |-> input.name,
   email |-> input.email,
   phone |-> IF Truthy(input.phone) THEN input.phone ELSE NoPhone]

\* CreateCustomerMutation.mutate on a store: the store afterwards and the result.
CreateCustomerOutcome(store, input) ==
  IF EmailExists(store, input.email)
    THEN [store    |-> store,
          customer |-> None,
          message  |-> None,
          errors   |-> <<ErrorType("email", "Email already exists")>>]
    ELSE LET c    == NewCustomer(input)
             errs == CustomerFullClean(store, c)
         IN  IF errs # << >>
               THEN [store    |-> store,
                     customer |-> None,
                     message  |-> None,
                     errors   |-> [i \in 1..Len(errs) |-> FriendlyError(errs[i])]]
               ELSE [store    |-> Append(store, c),
                     customer |-> Some([id |-> Len(store) + 1] @@ c),
                     message  |-> Some("created successfully"),
                     errors   |-> << >>]

CreateCustomerMutation(input) ==
  /\ res = Idle
  /\ LET out == CreateCustomerOutcome(customers, input)
     IN  /\ customers' = out.store
         /\ res' = [op       |-> "createCustomer",
                    input    |-> input,
                    before   |-> customers,
                    customer |-> out.customer,
                    message  |-> out.message,
                    errors   |-> out.errors]
  /\ UNCHANGED <<products, orders, tx, obs, rs, page, cron>>

\* f"customer_{i}_{field}", i counted from 0 as enumerate() counts.
BulkField(i, field) == [prefix |-> "customer", index |-> i, field |-> field]

\* The same loop with a break where the code has a continue.
RECURSIVE BulkLoopBreak(_, _, _, _, _)
BulkLoopBreak(pos, input, store, created, errors) ==
  IF pos > Len(input)
    THEN [store |-> store, customers |-> created, errors |-> errors]
    ELSE LET ci == input[pos]
             c  == NewCustomer(ci)
         IN  IF EmailExists(store, ci.email)
               THEN [store |-> store, customers |-> created,
                     errors |-> Append(errors,
                        ErrorType(BulkField(pos - 1, "email"), "Email already exists"))]
               ELSE BulkLoopBreak(pos + 1, input, Append(store, c),
                                  Append(created, [id |-> Len(store) + 1] @@ c), errors)

\* The for loop of BulkCreateCustomersMutation.mutate from input position pos
\* (1-based here, i = pos - 1 in the code): each input is checked and saved on
\* its own, against the store as the earlier inputs left it.
RECURSIVE BulkLoop(_, _, _, _, _)
BulkLoop(pos, input, store, created, errors) ==
  IF pos > Len(input)
    THEN [store |-> store, customers |-> created, errors |-> errors]
    ELSE LET ci   == input[pos]
             c    == NewCustomer(ci)
             errs == CustomerFullClean(store, c)
         IN  IF EmailExists(store, ci.email)
               THEN BulkLoop(pos + 1, input, store, created,
                      Append(errors,
                        ErrorType(BulkField(pos - 1, "email"), "Email already exists")))
               ELSE IF errs # << >>
                 THEN BulkLoop(pos + 1, input, store, created,
                        errors \o [j \in 1..Len(errs) |->
                          ErrorType(BulkField(pos - 1, errs[j].field),
                                    FriendlyMessage(errs[j]))])
                 ELSE BulkLoop(pos + 1, input, Append(store, c),
                               Append(created, [id |-> Len(store) + 1] @@ c), errors)

BulkCreateCustomersMutation(input) ==
  /\ res = Idle
  /\ LET out == BulkLoop(1, input, customers, << >>, << >>)
     IN  /\ customers' = out.store
         /\ res' = [op        |-> "bulkCreateCustomers",
                    input     |-> input,
                    before    |-> customers,
                    customers |-> out.customers,
                    errors    |-> out.errors]
  /\ UNCHANGED <<products, orders, tx, obs, rs, page, cron>>

\* The response of the finished call goes back to the client.
Deliver ==
  /\ res # Idle
  /\ res' = Idle
  /\ UNCHANGED <<customers, products, orders, tx, obs, rs, page, cron>>


(***************************************************************************)
(* Products: CreateProductMutation and UpdateLowStockProducts.             *)
(***************************************************************************)
ProductNames == {"", "Pen"}
PriceInputs  == {-1, 0, 1, 2}
StockInputs  == {None, Some(-1), Some(0), Some(9), Some(10)}
ProductInputs == [name : ProductNames, price : PriceInputs, stock : StockInputs]

DefaultStock      == 0
LowStockThreshold == 10
RestockAmount     == 10

\* Model.full_clean() of a Product, as for a Customer.
ProductFullClean(p) ==
  IF p.name = "" THEN <<ErrorType("name", "This field cannot be blank.")>> ELSE << >>

\* stock = input.stock if input.stock is not None else 0
StockOf(input) == IF input.stock = None THEN DefaultStock ELSE input.stock[1]

\* The same check with the comparison turned into price < 0.
PriceRejectedStrict(price) == price < 0

\* The stock check left out.
StockNeverRejected(stock) == FALSE

\* if price <= 0: the price check of CreateProductMutation.mutate.
PriceRejected(price) == price <= 0

\* if stock < 0: the stock check, which lets 0 through.
StockRejected(stock) == stock < 0

\* CreateProductMutation.mutate on a store: the store afterwards and the result.
\* Decimal(str(input.price)) of a float never raises, so the "Invalid price
\* format" branch is not taken.
CreateProductOutcome(store, input) ==
  IF PriceRejected(input.price)
    THEN [store |-> store, product |-> None,
          errors |-> <<ErrorType("price", "Price must be positive")>>]
    ELSE IF StockRejected(StockOf(input))
      THEN [store |-> store, product |-> None,
            errors |-> <<ErrorType("stock", "Stock must be non-negative (0 or greater)")>>]
      ELSE LET p    == [name |-> input.name, price |-> input.price, stock |-> StockOf(input)]
               errs == ProductFullClean(p)
           IN  IF errs # << >>
                 THEN [store |-> store, product |-> None, errors |-> errs]
                 ELSE [store   |-> Append(store, p),
                       product |-> Some([id |-> Len(store) + 1] @@ p),
                       errors  |-> << >>]

CreateProductMutation(input) ==
  /\ res = Idle
  /\ LET out == CreateProductOutcome(products, input)
     IN  /\ Len(out.store) <= MaxProducts
         /\ products' = out.store
         /\ res' = [op      |-> "createProduct",
                    input   |-> input,
                    before  |-> products,
                    product |-> out.product,
                    errors  |-> out.errors]
  /\ UNCHANGED <<customers, orders, tx, obs, rs, page, cron>>

\* The rows of a table with their primary keys, in key order.
Rows(store) == [i \in 1..Len(store) |-> [id |-> i] @@ store[i]]

\* The same query without its filter.
AllProducts(store) == Rows(store)

\* The same query with stock__lte=10.
LowStockInclusive(store) == SelectSeq(Rows(store), LAMBDA p : p.stock <= LowStockThreshold)

\* Product.objects.filter(stock__lt=10), evaluated against the store.
LowStockProducts(store) == SelectSeq(Rows(store), LAMBDA p : p.stock < LowStockThreshold)

Invocations == {1, 2}

RestockIdle == [pc |-> "idle"]

RestockMessage(kind, count) == [kind |-> kind, count |-> count]

RestockResult(updated, message, count) ==
  [updated_products |-> updated, success_message |-> message, count |-> count]

\* low_stock_products.exists(): the first query.  With no low-stock product the
\* mutation returns at once.
RestockStart(r) ==
  /\ rs[r].pc = "idle"
  /\ rs' = [rs EXCEPT ![r] =
       IF LowStockProducts(products) = << >>
         THEN [pc     |-> "done",
               before |-> products,
               saved  |-> << >>,
               result |-> RestockResult(<< >>, RestockMessage("no low stock", 0), 0)]
         ELSE [pc |-> "fetch", before |-> products, saved |-> << >>]]
  /\ UNCHANGED <<customers, products, orders, tx, obs, res, page, cron>>

\* for product in low_stock_products: the second query, which reads the rows
\* the loop then walks.
RestockFetch(r) ==
  /\ rs[r].pc = "fetch"
  /\ rs' = [rs EXCEPT ![r] = [pc      |-> "loop",
                              before  |-> rs[r].before,
                              saved   |-> << >>,
                              rows    |-> LowStockProducts(products),
                              idx     |-> 1,
                              updated |-> << >>,
                              count   |-> 0]]
  /\ UNCHANGED <<customers, products, orders, tx, obs, res, page, cron>>

\* The same loop step adding 1 instead of 10.
RestockedOne(product) == [product EXCEPT !.stock = @ + 1]

\* product.stock += 10, on the row as it was read.
Restocked(product) == [product EXCEPT !.stock = @ + RestockAmount]

\* The same turn adding to the stock the store holds at the save, not to the
\* stock of the row as read.
RestockSaveFresh(r) ==
  /\ rs[r].pc = "loop"
  /\ rs[r].idx <= Len(rs[r].rows)
  /\ LET row     == rs[r].rows[rs[r].idx]
         product == [row EXCEPT !.stock = products[row.id].stock + RestockAmount]
     IN  /\ products' = [products EXCEPT ![product.id].stock = product.stock]
         /\ rs' = [rs EXCEPT ![r].idx     = @ + 1,
                             ![r].updated = Append(@, product),
                             ![r].count   = @ + 1,
                             ![r].saved   = Append(@, product.id)]
  /\ UNCHANGED <<customers, orders, tx, obs, res, page, cron>>

\* One turn of the loop: the stock computed from the row as read is written
\* back (save(update_fields=['stock'])) and the row joins the updated list.
RestockSave(r) ==
  /\ rs[r].pc = "loop"
  /\ rs[r].idx <= Len(rs[r].rows)
  /\ LET product == Restocked(rs[r].rows[rs[r].idx])
     IN  /\ products' = [products EXCEPT ![product.id].stock = product.stock]
         /\ rs' = [rs EXCEPT ![r].idx     = @ + 1,
                             ![r].updated = Append(@, product),
                             ![r].count   = @ + 1,
                             ![r].saved   = Append(@, product.id)]
  /\ UNCHANGED <<customers, orders, tx, obs, res, page, cron>>

\* The loop is over: the mutation returns the updated rows and their count.
RestockReturn(r) ==
  /\ rs[r].pc = "loop"
  /\ rs[r].idx > Len(rs[r].rows)
  /\ rs' = [rs EXCEPT ![r] =
       [pc     |-> "done",
        before |-> rs[r].before,
        saved  |-> rs[r].saved,
        result |-> RestockResult(rs[r].updated,
                                 RestockMessage("restocked", rs[r].count),
                                 rs[r].count)]]
  /\ UNCHANGED <<customers, products, orders, tx, obs, res, page, cron>>

\* except Exception: a store fault in the second query or in a save ends the
\* mutation with the error message, an empty list and count 0.
RestockFault(r) ==
  /\ rs[r].pc \in {"fetch", "loop"}
  /\ rs[r].pc = "loop" => rs[r].idx <= Len(rs[r].rows)
  /\ rs' = [rs EXCEPT ![r] =
       [pc     |-> "done",
        before |-> rs[r].before,
        saved  |-> rs[r].saved,
        result |-> RestockResult(<< >>, RestockMessage("error", 0), 0)]]
  /\ UNCHANGED <<customers, products, orders, tx, obs, res, page, cron>>

\* The response of a finished restock goes back to its caller.
RestockDeliver(r) ==
  /\ rs[r].pc = "done"
  /\ rs' = [rs EXCEPT ![r] = RestockIdle]
  /\ UNCHANGED <<customers, products, orders, tx, obs, res, page, cron>>

\* No restock invocation is running.
NoRestock == \A r \in Invocations : rs[r].pc = "idle"


(***************************************************************************)
(* Orders: CreateOrderMutation.                                            *)
(***************************************************************************)
\* A graphene.ID argument is a string: the decimal form of a number, or not.
Id(n) == [num |-> TRUE, n |-> n]
BadId == [num |-> FALSE, n |-> 0]

CustomerIdInputs == {Id(1), Id(2), BadId}
ProductIdInputs  == {Id(1), Id(2), Id(3), BadId}
OrderInputs == [customerId : CustomerIdInputs,
                productIds : SeqUpTo(ProductIdInputs, MaxIds)]

DefaultTotal == 0

\* Model.objects.get(id=...): the row, DoesNotExist for a number that is no
\* key of the table, and a ValueError of the field for a string that is no number.
GetById(store, id) ==
  IF ~id.num THEN [status |-> "fault"]
  ELSE IF id.n \in 1..Len(store) THEN [status |-> "ok", row |-> Rows(store)[id.n]]
  ELSE [status |-> "missing"]

\* The for loop over input.productIds from position pos: found rows and
\* unresolved ids in input order; a fault other than DoesNotExist leaves the loop.
RECURSIVE ResolveProducts(_, _, _, _, _)
ResolveProducts(pos, ids, store, found, invalid) ==
  IF pos > Len(ids)
    THEN [fault |-> FALSE, products |-> found, invalid |-> invalid]
    ELSE LET got == GetById(store, ids[pos])
         IN  CASE got.status = "fault" ->
                    [fault |-> TRUE, products |-> found, invalid |-> invalid]
               [] got.status = "ok" ->
                    ResolveProducts(pos + 1, ids, store, Append(found, got.row), invalid)
               [] OTHER ->
                    ResolveProducts(pos + 1, ids, store, found, Append(invalid, ids[pos]))

\* f"Invalid product IDs: {', '.join(invalid_product_ids)}"
InvalidIdsMessage(invalid) == [text |-> "Invalid product IDs", ids |-> invalid]
PlainMessage(text) == [text |-> text, ids |-> << >>]

\* Everything CreateOrderMutation.mutate does before it opens the transaction:
\* the errors it returns, or none and the rows it goes on with.
ValidateOrder(input) ==
  LET c  == GetById(customers, input.customerId)
      ps == ResolveProducts(1, input.productIds, products, << >>, << >>)
  IN  CASE c.status = "fault" ->
             [errors |-> <<ErrorType("general", PlainMessage("ValueError"))>>]
        [] c.status = "missing" ->
             [errors |-> <<ErrorType("customerId", PlainMessage("Customer does not exist"))>>]
        [] input.productIds = << >> ->
             [errors |-> <<ErrorType("productIds",
                             PlainMessage("At least one product must be selected"))>>]
        [] ps.fault ->
             [errors |-> <<ErrorType("general", PlainMessage("ValueError"))>>]
        [] ps.invalid # << >> ->
             [errors |-> <<ErrorType("productIds", InvalidIdsMessage(ps.invalid))>>]
        [] OTHER ->
             [errors |-> << >>, customer |-> c.row.id, products |-> ps.products]

OrderResult(input, before, order, errors) ==
  [op |-> "createOrder", input |-> input, before |-> before,
   order |-> order, errors |-> errors]

TxIdle == [pc |-> "idle"]

\* mutate up to "with transaction.atomic():": a rejected call returns its
\* errors, an accepted one enters the transaction.
CreateOrderBegin(input) ==
  /\ res = Idle
  /\ tx = TxIdle
  /\ LET v == ValidateOrder(input)
     IN  IF v.errors # << >>
           THEN /\ res' = OrderResult(input, orders, None, v.errors)
                /\ tx' = tx
           ELSE /\ Len(orders) < MaxOrders
                /\ tx' = [pc       |-> "open",
                          input    |-> input,
                          before   |-> orders,
                          products |-> v.products,
                          pending  |-> [customer     |-> v.customer,
                                        products     |-> {},
                                        total_amount |-> DefaultTotal]]
                /\ res' = res
  /\ UNCHANGED <<customers, products, orders, obs, rs, page, cron>>

\* order.save(): the row is inserted inside the transaction.
TxSaveOrder ==
  /\ tx.pc = "open"
  /\ tx' = [tx EXCEPT !.pc = "saved"]
  /\ UNCHANGED <<customers, products, orders, obs, rs, res, page, cron>>

\* order.products.set(products): one association per distinct product.
TxSetProducts ==
  /\ tx.pc = "saved"
  /\ tx' = [tx EXCEPT !.pc = "assoc",
                      !.pending.products =
                         {tx.products[i].id : i \in 1..Len(tx.products)}]
  /\ UNCHANGED <<customers, products, orders, obs, rs, res, page, cron>>

\* sum(product.price for product in products), over the list as resolved.
RECURSIVE SumPrices(_)
SumPrices(ps) == IF ps = << >> THEN 0 ELSE Head(ps).price + SumPrices(Tail(ps))

\* order.total_amount = total; order.save(update_fields=['total_amount'])
TxSaveTotal ==
  /\ tx.pc = "assoc"
  /\ tx' = [tx EXCEPT !.pc = "total",
                      !.pending.total_amount = SumPrices(tx.products)]
  /\ UNCHANGED <<customers, products, orders, obs, rs, res, page, cron>>

\* The atomic block ends: its writes become the committed table, all at once.
TxCommit ==
  /\ tx.pc = "total"
  /\ orders' = Append(orders, tx.pending)
  /\ res' = OrderResult(tx.input, tx.before,
                        Some([id |-> Len(orders) + 1] @@ tx.pending), << >>)
  /\ tx' = TxIdle
  /\ UNCHANGED <<customers, products, obs, rs, page, cron>>

\* A fault inside the atomic block: its writes are rolled back and the outer
\* except Exception returns the "general" error.
TxFault ==
  /\ tx.pc \in {"open", "saved", "assoc", "total"}
  /\ res' = OrderResult(tx.input, tx.before, None,
                        <<ErrorType("general", PlainMessage("DatabaseError"))>>)
  /\ tx' = TxIdle
  /\ UNCHANGED <<customers, products, orders, obs, rs, page, cron>>

\* The rows the open transaction has written so far.
PendingOrders == IF tx.pc \in {"saved", "assoc", "total"} THEN <<tx.pending>> ELSE << >>

\* The Order table as a connection without the atomic block would show it.
DirtyOrders == orders \o PendingOrders

\* The Order table as another connection reads it: committed rows only.
VisibleOrders == orders

\* A concurrent reader (crmStats, order, allOrders) reads the Order table.
NoObs == [at |-> "none"]

ReadOrders ==
  /\ obs = NoObs
  /\ obs' = [at |-> tx.pc, orders |-> VisibleOrders]
  /\ UNCHANGED <<customers, products, orders, tx, rs, res, page, cron>>

\* The reader has its answer.
DeliverRead ==
  /\ obs # NoObs
  /\ obs' = NoObs
  /\ UNCHANGED <<customers, products, orders, tx, rs, res, page, cron>>

(***************************************************************************)
(* Statistics: Query.resolve_crm_stats.                                    *)
(***************************************************************************)
RECURSIVE SumTotals(_)
SumTotals(os) == IF os = << >> THEN 0 ELSE Head(os).total_amount + SumTotals(Tail(os))

\* Order.objects.aggregate(total=Sum('total_amount'))['total']: Sum over no
\* rows is None, not 0.
AggregateTotal(os) == IF os = << >> THEN None ELSE Some(SumTotals(os))

\* The same default without the "or": what the aggregate gave goes through.
NoDefault(total) == total

\* "... or 0.0": None and a sum of 0 are both falsy and give 0.0.  The sums of
\* the model are whole minor units far below the size where float() rounds.
OrZero(total) == IF total = None \/ total[1] = 0 THEN Some(0) ELSE total

\* resolve_crm_stats: two counts and the aggregate, read from the committed
\* tables while no mutation is in progress.
ResolveCrmStats ==
  /\ res = Idle
  /\ res' = [op              |-> "crmStats",
             total_customers |-> Len(customers),
             total_orders    |-> Len(VisibleOrders),
             total_revenue   |-> OrZero(AggregateTotal(VisibleOrders))]
  /\ UNCHANGED <<customers, products, orders, tx, obs, rs, page, cron>>


(***************************************************************************)
(* The filtered listing resolvers and their pagination.                    *)
(***************************************************************************)
\* An optional Int argument: None when the client leaves it out.
IntArgs == {None} \cup {Some(n) : n \in -1..(MaxRows + 1)}

\* filter_instance.qs: the filter's matches in the store's order, here the
\* n matching rows named by their position.
FilteredQs(n) == [i \in 1..n |-> i]

QsOk(items) == [fault |-> FALSE, items |-> items]
QsFault     == [fault |-> TRUE, items |-> << >>]

Min(a, b) == IF a < b THEN a ELSE b

\* queryset[k:]: a negative bound is refused ("Negative indexing is not supported").
SliceFrom(items, k) ==
  IF k < 0 THEN QsFault ELSE QsOk(SubSeq(items, k + 1, Len(items)))

\* queryset[:k]
SliceTo(items, k) ==
  IF k < 0 THEN QsFault ELSE QsOk(SubSeq(items, 1, Min(k, Len(items))))

\* "if offset:" and "if limit:": None and 0 are both falsy.
ArgTruthy(arg) == arg # None /\ arg[1] # 0

\* The "Handle pagination" lines that end each of the four resolvers.
Paginate(items, limit, offset) ==
  LET skipped == IF ArgTruthy(offset) THEN SliceFrom(items, offset[1]) ELSE QsOk(items)
  IN  IF skipped.fault THEN skipped
      ELSE IF ArgTruthy(limit) THEN SliceTo(skipped.items, limit[1]) ELSE skipped

\* What a resolver call leaves: its arguments and what it returned.
Page(resolver, n, limit, offset) ==
  [resolver |-> resolver,
   filtered |-> FilteredQs(n),
   limit    |-> limit,
   offset   |-> offset,
   result   |-> Paginate(FilteredQs(n), limit, offset)]

ResolveFilteredCustomers(n, limit, offset) ==
  /\ page' = Page("filteredCustomers", n, limit, offset)
  /\ UNCHANGED <<customers, products, orders, tx, obs, rs, res, cron>>

\* Its "manual ordering" branch asks for ordering and not ordering: never taken.
ResolveAdvancedFilteredCustomers(n, limit, offset) ==
  /\ page' = Page("advancedFilteredCustomers", n, limit, offset)
  /\ UNCHANGED <<customers, products, orders, tx, obs, rs, res, cron>>

ResolveFilteredProducts(n, limit, offset) ==
  /\ page' = Page("filteredProducts", n, limit, offset)
  /\ UNCHANGED <<customers, products, orders, tx, obs, rs, res, cron>>

ResolveFilteredOrders(n, limit, offset) ==
  /\ page' = Page("filteredOrders", n, limit, offset)
  /\ UNCHANGED <<customers, products, orders, tx, obs, rs, res, cron>>

(***************************************************************************)
(* The scheduled tasks.  Each asks the API one thing and writes to its log *)
(* sink; what the API answers is the task's input.                         *)
(***************************************************************************)
Tasks == {"log_crm_heartbeat", "update_low_stock", "generate_crm_report_task",
          "send_order_reminders"}

\* client.execute(query): it raises (endpoint down, transport or query error),
\* or returns a falsy result, a result without the field asked for, or the
\* field with n items in it.
Responses == {[kind |-> k, n |-> 0] : k \in {"raise", "empty", "no_key"}}
             \cup {[kind |-> "ok", n |-> n] : n \in 0..MaxItems}

Repeat(line, n) == [i \in 1..n |-> line]

\* The scheduled tasks after one run of a task: the lines it appended to its
\* log sink and how it ended.
Ran(task, response, lines, ending) ==
  [runs |-> cron.runs + 1,
   logs |-> [cron.logs EXCEPT ![task] = @ \o lines],
   last |-> [task |-> task, response |-> response, lines |-> lines, ending |-> ending]]

\* Every exception of the check is caught; the log line is written after it.
LogCrmHeartbeat(response) ==
  /\ cron.runs < MaxRuns
  /\ cron' = Ran("log_crm_heartbeat", response,
       CASE response.kind = "raise" -> <<"CRM is alive - GraphQL check failed">>
         [] response.kind = "ok"    -> <<"CRM is alive - GraphQL endpoint responsive">>
         [] OTHER -> <<"CRM is alive - GraphQL endpoint reachable but no hello response">>,
       "returned")
  /\ UNCHANGED <<customers, products, orders, tx, obs, rs, res, page>>

\* With updated products the task writes its lines and returns early; in every
\* other case the one line is written after the try.
UpdateLowStock(response) ==
  /\ cron.runs < MaxRuns
  /\ cron' = Ran("update_low_stock", response,
       CASE response.kind = "raise" -> <<"Low stock update failed">>
         [] response.kind = "ok"    ->
              <<"Low stock update completed">> \o Repeat("Updated product", response.n)
         [] OTHER -> <<"Low stock update failed: No response from mutation">>,
       "returned")
  /\ UNCHANGED <<customers, products, orders, tx, obs, rs, res, page>>

GenerateCrmReportTask(response) ==
  /\ cron.runs < MaxRuns
  /\ cron' = Ran("generate_crm_report_task", response,
       CASE response.kind = "raise" -> <<"Report generation failed">>
         [] response.kind = "ok"    -> <<"Report">>
         [] OTHER -> <<"Report generation failed: No response from CRM stats query">>,
       "returned")
  /\ UNCHANGED <<customers, products, orders, tx, obs, rs, res, page>>

\* The script has no try: a raise of execute, or of result['orders']['edges'] on
\* a result without them, ends it with the exception and no line written.
SendOrderReminders(response) ==
  /\ cron.runs < MaxRuns
  /\ cron' = Ran("send_order_reminders", response,
       IF response.kind = "ok" THEN Repeat("Order ID", response.n) ELSE << >>,
       IF response.kind = "ok" THEN "returned" ELSE "uncaught")
  /\ UNCHANGED <<customers, products, orders, tx, obs, rs, res, page>>

(***************************************************************************)
(* The system.                                                             *)
(***************************************************************************)
Init ==
  /\ customers = << >>
  /\ products = << >>
  /\ orders = << >>
  /\ tx = TxIdle
  /\ obs = NoObs
  /\ rs = [r \in Invocations |-> RestockIdle]
  /\ res = Idle
  /\ page = [resolver |-> "none"]
  /\ cron = [runs |-> 0, logs |-> [t \in Tasks |-> << >>], last |-> [task |-> "none"]]

\* API calls one after the other: none starts while another is in progress.
Quiet == tx = TxIdle /\ NoRestock /\ res = Idle

\* createCustomer calls.
NextCustomer ==
  \/ \E input \in CustomerInputs : CreateCustomerMutation(input)
  \/ Deliver

SpecCustomer == Init /\ [][NextCustomer]_vars

\* bulkCreateCustomers calls.
NextBulk ==
  \/ \E input \in BulkInputs : BulkCreateCustomersMutation(input)
  \/ Deliver

SpecBulk == Init /\ [][NextBulk]_vars

\* The product mutations, a restock running alone.
NextProduct ==
  \/ \E input \in ProductInputs : Quiet /\ CreateProductMutation(input)
  \/ \E r \in Invocations : Quiet /\ RestockStart(r)
  \/ \E r \in Invocations : RestockFetch(r)
  \/ \E r \in Invocations : RestockSave(r)
  \/ \E r \in Invocations : RestockReturn(r)
  \/ \E r \in Invocations : RestockFault(r)
  \/ \E r \in Invocations : RestockDeliver(r)
  \/ Deliver

SpecProduct == Init /\ [][NextProduct]_vars

\* Order creation over a store of a few customers and products, with a reader
\* of the Order table whose answer is delivered before the next step.
OrderCustomers == [name : {"Ann"}, email : {"a@x.io"}, phone : {NoPhone}]
\* The n-th product costs n, so that every product has a price of its own.
OrderProducts  == [name : {"Pen"}, price : {Len(products) + 1}, stock : {Some(10)}]

NextOrder ==
  \/ \E input \in OrderCustomers : Quiet /\ obs = NoObs /\ CreateCustomerMutation(input)
  \/ \E input \in OrderProducts : Quiet /\ obs = NoObs /\ CreateProductMutation(input)
  \/ \E input \in OrderInputs : Quiet /\ obs = NoObs /\ CreateOrderBegin(input)
  \/ obs = NoObs /\ TxSaveOrder
  \/ obs = NoObs /\ TxSetProducts
  \/ obs = NoObs /\ TxSaveTotal
  \/ obs = NoObs /\ TxCommit
  \/ obs = NoObs /\ TxFault
  \/ ReadOrders
  \/ DeliverRead
  \/ obs = NoObs /\ Deliver

SpecOrder == Init /\ [][NextOrder]_vars

\* The listing resolvers over every filtered size, limit and offset.
NextPage ==
  \/ \E n \in 0..MaxRows, l \in IntArgs, o \in IntArgs : ResolveFilteredCustomers(n, l, o)
  \/ \E n \in 0..MaxRows, l \in IntArgs, o \in IntArgs : ResolveAdvancedFilteredCustomers(n, l, o)
  \/ \E n \in 0..MaxRows, l \in IntArgs, o \in IntArgs : ResolveFilteredProducts(n, l, o)
  \/ \E n \in 0..MaxRows, l \in IntArgs, o \in IntArgs : ResolveFilteredOrders(n, l, o)

SpecPage == Init /\ [][NextPage]_vars

\* The scheduled tasks, whatever the API answers.
NextCron ==
  \/ \E response \in Responses : LogCrmHeartbeat(response)
  \/ \E response \in Responses : UpdateLowStock(response)
  \/ \E response \in Responses : GenerateCrmReportTask(response)
  \/ \E response \in Responses : SendOrderReminders(response)

SpecCron == Init /\ [][NextCron]_vars

\* The core as its clients use it: every mutation and the statistics query,
\* one call at a time, over a few customers and products.
CoreCustomers == [name : {"Ann"}, email : {"a@x.io", "b@x.io"}, phone : {NoPhone}]
CoreBulk      == SeqUpTo(CoreCustomers, MaxBulk)
\* The n-th product costs n and comes with a stock below the threshold.
CoreProducts  == [name : {"Pen"}, price : {Len(products) + 1}, stock : {Some(9)}]
CoreOrders    == [customerId : {Id(1), Id(2)},
                  productIds : SeqUpTo({Id(1), Id(2)}, MaxIds)]

NextCore ==
  \/ \E input \in CoreCustomers : Quiet /\ CreateCustomerMutation(input)
  \/ \E input \in CoreBulk : Quiet /\ BulkCreateCustomersMutation(input)
  \/ \E input \in CoreProducts : Quiet /\ CreateProductMutation(input)
  \/ \E input \in CoreOrders : Quiet /\ CreateOrderBegin(input)
  \/ TxSaveOrder
  \/ TxSetProducts
  \/ TxSaveTotal
  \/ TxCommit
  \/ TxFault
  \/ \E r \in Invocations : Quiet /\ RestockStart(r)
  \/ \E r \in Invocations : RestockFetch(r)
  \/ \E r \in Invocations : RestockSave(r)
  \/ \E r \in Invocations : RestockReturn(r)
  \/ \E r \in Invocations : RestockFault(r)
  \/ \E r \in Invocations : RestockDeliver(r)
  \/ Quiet /\ ResolveCrmStats
  \/ Deliver

SpecCore == Init /\ [][NextCore]_vars

\* Two restock invocations that overlap: the second is invoked while the first
\* is between its first query and its return, and their answers are delivered
\* when neither is running.  Products are created while no restock runs.
OverlapProducts == [name : {"Pen"}, price : {1}, stock : {Some(0), Some(9), Some(10)}]

NoneReturned == \A r \in Invocations : rs[r].pc # "done"
NoneRunning  == \A r \in Invocations : rs[r].pc \in {"idle", "done"}

NextOverlap ==
  \/ \E input \in OverlapProducts : Quiet /\ CreateProductMutation(input)
  \/ \E r \in Invocations : res = Idle /\ NoneReturned /\ RestockStart(r)
  \/ \E r \in Invocations : RestockFetch(r)
  \/ \E r \in Invocations : RestockSave(r)
  \/ \E r \in Invocations : RestockReturn(r)
  \/ \E r \in Invocations : RestockFault(r)
  \/ \E r \in Invocations : NoneRunning /\ RestockDeliver(r)
  \/ Deliver

SpecOverlap == Init /\ [][NextOverlap]_vars

\* Restocks one right after the other: invocation 1 on a quiet store, then
\* invocation 2 as soon as invocation 1 has returned, with no createProduct
\* between them.
NextRepeat ==
  \/ \E input \in ProductInputs : Quiet /\ CreateProductMutation(input)
  \/ Quiet /\ RestockStart(1)
  \/ res = Idle /\ rs[1].pc = "done" /\ RestockStart(2)
  \/ \E r \in Invocations : RestockFetch(r)
  \/ \E r \in Invocations : RestockSave(r)
  \/ \E r \in Invocations : RestockReturn(r)
  \/ \E r \in Invocations : RestockFault(r)
  \/ rs[2].pc = "idle" /\ RestockDeliver(1)
  \/ RestockDeliver(2)
  \/ Deliver

SpecRepeat == Init /\ [][NextRepeat]_vars

\* The whole system, one API call at a time.
Next == NextCustomer \/ NextBulk \/ NextProduct \/ NextOrder \/ NextPage \/ NextCron
          \/ NextCore \/ NextOverlap \/ NextRepeat

Spec == Init /\ [][Next]_vars


(***************************************************************************)
(* Properties.                                                             *)
(***************************************************************************)
\* The sum of the prices of a set of products of the store.
RECURSIVE PriceOfSet(_)
PriceOfSet(S) ==
  IF S = {} THEN 0
  ELSE LET x == CHOOSE x \in S : TRUE
       IN  products[x].price + PriceOfSet(S \ {x})

CreatedOrder == res.op = "createOrder" /\ res.order # None

\* C1: after every successful createOrder, whether or not its product ids
\* repeat, the persisted total_amount of the new order is the sum of the
\* prices of the products associated with the order.
C1_TotalIsSumOfAssociated ==
  CreatedOrder =>
    LET o == orders[res.order[1].id]
    IN  o.total_amount = PriceOfSet(o.products)

\* C1, for a call whose product ids are all different: the total is the sum
\* of the prices of the associated products.
C1_TotalOfDistinctIds ==
  (CreatedOrder /\ \A i, j \in 1..Len(res.input.productIds) :
                      res.input.productIds[i] = res.input.productIds[j] => i = j) =>
    LET o == orders[res.order[1].id]
    IN  o.total_amount = PriceOfSet(o.products)

\* C1, the case reached: an order created from a repeated product id.
C1_RepeatedIdOrdered ==
  /\ CreatedOrder
  /\ Len(res.input.productIds) = 2
  /\ res.input.productIds[1] = res.input.productIds[2]

\* An id of the store's tables, as the client writes it.
Resolves(store, id) == id.num /\ id.n \in 1..Len(store)

Occurs(x, seq) == \E i \in 1..Len(seq) : seq[i] = x

OrderOfUnresolvedIds ==
  /\ res.op = "createOrder"
  /\ Resolves(customers, res.input.customerId)
  /\ \E i \in 1..Len(res.input.productIds) : ~Resolves(products, res.input.productIds[i])

\* C5: a createOrder call of an existing customer with one or more product ids
\* that resolve to no product returns exactly one error, on productIds, whose
\* message lists every unresolved id of the input, and creates no order.
C5_AllInvalidIdsReported ==
  OrderOfUnresolvedIds =>
    /\ Len(res.errors) = 1
    /\ res.errors[1].field = "productIds"
    /\ \A i \in 1..Len(res.input.productIds) :
         ~Resolves(products, res.input.productIds[i])
           => Occurs(res.input.productIds[i], res.errors[1].message.ids)
    /\ res.order = None
    /\ orders = res.before

\* C5, for ids that are all numbers: the one productIds error lists every
\* unresolved id and no order is created.
C5_NumericInvalidIdsReported ==
  (OrderOfUnresolvedIds /\ \A i \in 1..Len(res.input.productIds) : res.input.productIds[i].num) =>
    /\ Len(res.errors) = 1
    /\ res.errors[1].field = "productIds"
    /\ \A i \in 1..Len(res.input.productIds) :
         ~Resolves(products, res.input.productIds[i])
           => Occurs(res.input.productIds[i], res.errors[1].message.ids)
    /\ res.order = None
    /\ orders = res.before

\* An order row with its associations and a total computed from them.
Whole(o) == o.products # {} /\ o.total_amount # DefaultTotal

\* C9: createOrder persists the order row, its associations and its total as
\* one unit.  Whatever a concurrent reader reads, at any moment of a creation,
\* holds whole orders only; a creation that ends in a fault or a rejection
\* leaves the Order table as it was; a creation that succeeds leaves the row
\* with the associations and the total it computed.
C9_OrderCreationAtomic ==
  /\ obs # NoObs => \A i \in 1..Len(obs.orders) : Whole(obs.orders[i])
  /\ \A i \in 1..Len(VisibleOrders) : Whole(VisibleOrders[i])
  /\ (res.op = "createOrder" /\ res.order = None) => orders = res.before
  /\ CreatedOrder =>
       /\ orders = Append(res.before, [k \in {"customer", "products", "total_amount"}
                                         |-> res.order[1][k]])
       /\ res.order[1].products =
            {res.input.productIds[i].n : i \in 1..Len(res.input.productIds)}
       /\ res.order[1].total_amount > 0

\* C9, the case reached: a reader read the table while a creation had written
\* its row and two associations but not yet its total, and did not see the row.
C9_ReadDuringCreation ==
  /\ obs.at = "assoc"
  /\ tx.pc = "assoc"
  /\ Cardinality(tx.pending.products) = 2
  /\ tx.pending.total_amount = DefaultTotal
  /\ obs.orders = orders


RestockDone(r) == rs[r].pc = "done" /\ rs[r].result.success_message.kind # "error"

\* C2: when a restock that ran alone has returned its products, every product
\* whose stock was below 10 has its stock raised by exactly 10 in the store and
\* is exactly once in the returned list, and the returned count is the length
\* of that list.
C2_RestockAddsTen ==
  \A r \in Invocations :
    RestockDone(r) =>
      LET before  == rs[r].before
          updated == rs[r].result.updated_products
      IN  /\ \A i \in 1..Len(before) :
               before[i].stock < 10 =>
                 /\ products[i].stock = before[i].stock + 10
                 /\ Cardinality({j \in 1..Len(updated) : updated[j].id = i}) = 1
          /\ rs[r].result.count = Len(updated)

\* C2, the case reached: a restock that raised two low-stock products.
C2_TwoRestocked ==
  \E r \in Invocations :
    /\ RestockDone(r)
    /\ rs[r].result.count = 2
    /\ \E i \in 1..Len(products) : products[i].stock = 19

CreateProductCalled == res.op = "createProduct"

\* C8: every stored product has price > 0 and stock >= 0, whatever createProduct
\* and restock calls came before; a createProduct call with price <= 0 is
\* rejected on field price, one with a good price and stock < 0 on field stock,
\* neither creates a product, and a product created without a stock has stock 0.
C8_PriceAndStockInvariant ==
  /\ \A i \in 1..Len(products) : products[i].price > 0 /\ products[i].stock >= 0
  /\ CreateProductCalled =>
       /\ res.input.price <= 0 =>
            /\ \E i \in 1..Len(res.errors) : res.errors[i].field = "price"
            /\ res.product = None /\ products = res.before
       /\ (res.input.price > 0 /\ res.input.stock # None /\ res.input.stock[1] < 0) =>
            /\ \E i \in 1..Len(res.errors) : res.errors[i].field = "stock"
            /\ res.product = None /\ products = res.before
       /\ (res.product # None /\ res.input.stock = None) =>
            /\ res.product[1].stock = 0
            /\ products[res.product[1].id].stock = 0

\* C8, the case reached: a product created without a stock beside one that a
\* restock has raised.
C8_DefaultStockBesideRestocked ==
  /\ CreateProductCalled
  /\ res.product # None
  /\ res.input.stock = None
  /\ \E i \in 1..Len(products) : products[i].stock = 19

BulkCalled == res.op = "bulkCreateCustomers"

\* Input j of the bulk call repeats the email of a stored customer or of an
\* earlier input of the call.
DuplicateInput(j) ==
  \/ \E i \in 1..Len(res.before) : res.before[i].email = res.input[j].email
  \/ \E i \in 1..(j - 1) : res.input[i].email = res.input[j].email

ValidInput(j) ==
  /\ res.input[j].name # ""
  /\ res.input[j].phone \in {NoPhone, EmptyPhone, PlusPhone, DashPhone}

\* Input k is the one duplicate of the call and every other input is valid.
OnlyDuplicate(k) ==
  /\ DuplicateInput(k)
  /\ \A j \in 1..Len(res.input) : j # k => ~DuplicateInput(j) /\ ValidInput(j)

\* C3: a bulk call of N inputs of which exactly one, k, has a duplicate email
\* and the others are valid creates exactly N-1 customers and returns exactly
\* one error, tagged with the index of k, and every input after k is created.
C3_BulkPartialSuccess ==
  BulkCalled =>
    \A k \in 1..Len(res.input) :
      OnlyDuplicate(k) =>
        /\ Len(res.customers) = Len(res.input) - 1
        /\ Len(customers) = Len(res.before) + Len(res.input) - 1
        /\ Len(res.errors) = 1
        /\ res.errors[1].field = BulkField(k - 1, "email")
        /\ \A j \in (k + 1)..Len(res.input) :
             /\ \E i \in 1..Len(res.customers) : res.customers[i].email = res.input[j].email
             /\ \E i \in (Len(res.before) + 1)..Len(customers) :
                  customers[i].email = res.input[j].email

\* C3, the case reached: three inputs, the second repeating the first, the
\* third created after it.
C3_MiddleDuplicate ==
  /\ BulkCalled
  /\ Len(res.input) = 3
  /\ OnlyDuplicate(2)
  /\ res.input[2].email = res.input[1].email
  /\ \E i \in 1..Len(customers) : customers[i].email = res.input[3].email

DuplicateCreate ==
  /\ res.op = "createCustomer"
  /\ \E i \in 1..Len(res.before) : res.before[i].email = res.input.email

\* C4: a createCustomer call with the very email of a stored customer returns
\* an error on field email and no customer, and leaves the customers as they were.
C4_DuplicateEmailRejected ==
  DuplicateCreate =>
    /\ \E i \in 1..Len(res.errors) : res.errors[i].field = "email"
    /\ res.customer = None
    /\ customers = res.before

\* C4, the case reached: the store holds two emails that differ in case only
\* and a call repeating one of them was rejected.
C4_DuplicateAmongCaseVariants ==
  /\ DuplicateCreate
  /\ res.input.email = "A@x.io"
  /\ \E i \in 1..Len(customers) : customers[i].email = "a@x.io"

Resolved == page.resolver # "none"

\* Elements [O, min(O+L, N)) of a sequence of N elements.
Window(items, O, L) == SubSeq(items, O + 1, Min(O + L, Len(items)))

\* C6: a listing resolver called with offset O >= 0 and limit L >= 0 returns,
\* without a fault, exactly the elements [O, min(O+L, N)) of the filtered sequence.
C6_PageIsWindow ==
  (Resolved /\ page.offset # None /\ page.limit # None
            /\ page.offset[1] >= 0 /\ page.limit[1] >= 0) =>
    /\ ~page.result.fault
    /\ page.result.items = Window(page.filtered, page.offset[1], page.limit[1])

\* C6, for a limit L >= 1: the result is the window.
C6_PageIsWindowPositiveLimit ==
  (Resolved /\ page.offset # None /\ page.limit # None
            /\ page.offset[1] >= 0 /\ page.limit[1] >= 1) =>
    /\ ~page.result.fault
    /\ page.result.items = Window(page.filtered, page.offset[1], page.limit[1])

\* C7: a listing resolver called without a limit and with a negative or
\* missing offset returns, without a fault, the whole filtered sequence.
C7_NegativeOffsetIsZero ==
  (Resolved /\ page.limit = None /\ (page.offset = None \/ page.offset[1] < 0)) =>
    /\ ~page.result.fault
    /\ page.result.items = page.filtered

\* C7, for a missing offset: the whole filtered sequence is returned.
C7_MissingOffsetIsZero ==
  (Resolved /\ page.limit = None /\ page.offset = None) =>
    /\ ~page.result.fault
    /\ page.result.items = page.filtered

FailureLines ==
  {"CRM is alive - GraphQL check failed",
   "CRM is alive - GraphQL endpoint reachable but no hello response",
   "Low stock update failed",
   "Low stock update failed: No response from mutation",
   "Report generation failed",
   "Report generation failed: No response from CRM stats query"}

TaskRanWithoutAnswer == cron.last.task # "none" /\ cron.last.response.kind # "ok"

\* C10: a scheduled task whose API call fails or gives no usable answer
\* appends a failure line to its log sink and ends normally.
C10_TasksAreTotal ==
  TaskRanWithoutAnswer =>
    /\ cron.last.ending = "returned"
    /\ \E i \in 1..Len(cron.last.lines) : cron.last.lines[i] \in FailureLines

\* C10, for the three tasks of cron.py: a failure line and a normal ending.
C10_CronPyTasksAreTotal ==
  (TaskRanWithoutAnswer /\ cron.last.task # "send_order_reminders") =>
    /\ cron.last.ending = "returned"
    /\ \E i \in 1..Len(cron.last.lines) : cron.last.lines[i] \in FailureLines

\* One step leaves the stored orders and products as a snapshot requires.
C11_Frame ==
  /\ Len(orders') >= Len(orders)
  /\ \A i \in 1..Len(orders) :
       /\ orders'[i].total_amount = orders[i].total_amount
       /\ orders'[i].products = orders[i].products
  /\ Len(products') >= Len(products)
  /\ \A i \in 1..Len(products) :
       /\ products'[i].name = products[i].name
       /\ products'[i].price = products[i].price
       /\ products'[i].stock # products[i].stock =>
            /\ \E r \in Invocations : rs[r].pc = "loop"
            /\ products[i].stock < 10
            /\ products'[i].stock = products[i].stock + 10

StatsAnswered == res.op = "crmStats"

\* The sum of total_amount over the orders at the positions of S.
RECURSIVE RevenueOf(_)
RevenueOf(S) ==
  IF S = {} THEN 0
  ELSE LET x == CHOOSE x \in S : TRUE
       IN  orders[x].total_amount + RevenueOf(S \ {x})

Malformed(phone) == phone \in {EmptyPhone, BadPhone, ShortDash}

CreateOfNewEmail ==
  /\ res.op = "createCustomer"
  /\ \A i \in 1..Len(res.before) : res.before[i].email # res.input.email

\* C13: a createCustomer call of a new email whose phone string matches neither
\* +<digits> nor ###-###-####, the empty string included, returns an error on
\* field phone and no customer, and leaves the customers as they were.
C13_MalformedPhoneRejected ==
  (CreateOfNewEmail /\ Malformed(res.input.phone)) =>
    /\ \E i \in 1..Len(res.errors) : res.errors[i].field = "phone"
    /\ res.customer = None
    /\ customers = res.before

\* C13, for a phone string that is not empty: the call is rejected on phone.
C13_NonEmptyMalformedRejected ==
  (CreateOfNewEmail /\ Malformed(res.input.phone) /\ res.input.phone # EmptyPhone) =>
    /\ \E i \in 1..Len(res.errors) : res.errors[i].field = "phone"
    /\ res.customer = None
    /\ customers = res.before

\* C13, the case reached: a customer created from an empty phone string.
C13_EmptyPhoneCreated ==
  /\ CreateOfNewEmail
  /\ res.input.phone = EmptyPhone
  /\ res.customer # None
  /\ customers = Append(res.before, [name |-> res.input.name, email |-> res.input.email,
                                     phone |-> NoPhone])


\* The restock invocation r has returned and, when it was invoked, no stored
\* product had a stock below 10.
RestockOfNoLowStock(r) ==
  /\ rs[r].pc = "done"
  /\ \A i \in 1..Len(rs[r].before) : rs[r].before[i].stock >= 10

\* C14: a restock invoked when no stored product has a stock below 10 returns
\* count 0, an empty updated list and the "no low stock" message, which is not
\* the error message, and leaves every product as it was.
C14_NoLowStockIsSuccess ==
  \A r \in Invocations :
    RestockOfNoLowStock(r) =>
      /\ rs[r].result.count = 0
      /\ rs[r].result.updated_products = << >>
      /\ rs[r].result.success_message = RestockMessage("no low stock", 0)
      /\ rs[r].result.success_message.kind # "error"
      /\ products = rs[r].before

\* C14, the case reached: a restock of a store whose two products have the
\* stocks 10 and 19.
C14_RestockOfFullShelves ==
  \E r \in Invocations :
    /\ RestockOfNoLowStock(r)
    /\ Len(products) = 2
    /\ products[1].stock = 10
    /\ products[2].stock = 19


\* Both invocations have returned the list of what they updated.
BothReturned == \A r \in Invocations : RestockDone(r)

\* The invocation that was invoked first: the store it found is nowhere ahead
\* of the store the other found.
FirstInvoked ==
  CHOOSE r \in Invocations :
    \A q \in Invocations : \A i \in 1..Len(rs[r].before) :
      rs[r].before[i].stock <= rs[q].before[i].stock

\* The stock of product i before the two invocations.
InitialStock(i) == rs[FirstInvoked].before[i].stock

Returned(r, i) ==
  \E j \in 1..Len(rs[r].result.updated_products) : rs[r].result.updated_products[j].id = i

TimesReturned(i) == Cardinality({r \in Invocations : Returned(r, i)})

\* C15: when two overlapping restock invocations have both returned, the
\* stock of every product is its stock before them plus 10 for each invocation
\* that returned the product, and every stock an invocation returned is one
\* that was persisted on the way there.
C15_EveryReturnAddsTen ==
  BothReturned =>
    /\ \A i \in 1..Len(products) :
         products[i].stock = InitialStock(i) + 10 * TimesReturned(i)
    /\ \A r \in Invocations : \A j \in 1..Len(rs[r].result.updated_products) :
         LET p == rs[r].result.updated_products[j]
         IN  \E k \in 1..TimesReturned(p.id) : p.stock = InitialStock(p.id) + 10 * k

\* C15 as amended: when two overlapping restock invocations have both
\* returned, the stock of every product that at least one of them returned is
\* its stock before them plus 10, once, the stock of every other product is as
\* before, and every stock an invocation returned is the persisted one.
C15_ReturnedAddsTenOnce ==
  BothReturned =>
    /\ \A i \in 1..Len(products) :
         products[i].stock = InitialStock(i) + (IF TimesReturned(i) >= 1 THEN 10 ELSE 0)
    /\ \A r \in Invocations : \A j \in 1..Len(rs[r].result.updated_products) :
         LET p == rs[r].result.updated_products[j]
         IN  p.stock = products[p.id].stock

\* C15, the case reached: both invocations returned the same product, read at
\* stock 9 by each.
C15_BothReturnedOneProduct ==
  /\ BothReturned
  /\ \E i \in 1..Len(products) :
       /\ TimesReturned(i) = 2
       /\ \A r \in Invocations : rs[r].before[i].stock = 9

\* The products whose persisted stock is not what it was when r was invoked.
Changed(r) == {i \in 1..Len(rs[r].before) : products[i].stock # rs[r].before[i].stock}

\* C16: whatever the outcome of a restock that ran alone, a store fault in
\* its loop included, the products of the returned list are the products whose
\* persisted stock the invocation changed and the count is their number: a
\* result of count 0 and an empty list means no stock was changed.
C16_ResultMatchesChanges ==
  \A r \in Invocations :
    rs[r].pc = "done" =>
      /\ {rs[r].result.updated_products[j].id :
            j \in 1..Len(rs[r].result.updated_products)} = Changed(r)
      /\ rs[r].result.count = Cardinality(Changed(r))

\* C16, for a restock the store did not fail: list and count match the changes.
C16_ReturnedResultMatchesChanges ==
  \A r \in Invocations :
    RestockDone(r) =>
      /\ {rs[r].result.updated_products[j].id :
            j \in 1..Len(rs[r].result.updated_products)} = Changed(r)
      /\ rs[r].result.count = Cardinality(Changed(r))

\* C16, the case reached: a fault at the second save, after the first product
\* was saved with its new stock.
C16_FaultAfterFirstSave ==
  \E r \in Invocations :
    /\ rs[r].pc = "done"
    /\ rs[r].result = RestockResult(<< >>, RestockMessage("error", 0), 0)
    /\ Changed(r) = {1}
    /\ Len(products) = 2
    /\ products[2].stock < 10

\* C17: when a restock that ran alone has returned its products, no stored
\* product has a stock below 10; the restock invoked right after it, with no
\* createProduct between, changes no stock and returns count 0 and an empty
\* list, so that no stock is raised twice by the two.
C17_SecondRestockIsEmpty ==
  RestockDone(1) =>
    /\ \A i \in 1..Len(products) : products[i].stock >= 10
    /\ rs[2].pc = "done" =>
         /\ rs[2].result.count = 0
         /\ rs[2].result.updated_products = << >>
         /\ products = rs[2].before
         /\ \A i \in 1..Len(products) : products[i].stock <= rs[1].before[i].stock + 10

\* C17, the case reached: the first restock raised a product from 0 to 10 and
\* the second has returned.
C17_RestockedTwice ==
  /\ RestockDone(1)
  /\ rs[1].result.count = 2
  /\ rs[1].before[1].stock = 0
  /\ products[1].stock = 10
  /\ rs[2].pc = "done"


=============================================================================
